---- MODULE Spec2Model ----
(***************************************************************************)
(* A model of the personal planner's data-aggregation and briefing         *)
(* pipeline: the Motion task adapter (pagination and date window), the     *)
(* Garmin fitness adapter, the OpenWeatherMap adapter, the calendar        *)
(* adapter, the aggregator, the section parser and the three-stage         *)
(* briefing orchestrator.                                                  *)
(*                                                                         *)
(* Python values are encoded as follows.  A dict is a function whose       *)
(* DOMAIN is the set of keys it holds; None is the string "None" (no       *)
(* cursor, start time or document of the model is that string); a list is  *)
(* a sequence.  Every component has its own program counter; a component   *)
(* that a specification does not exercise stays "idle".                    *)
(***************************************************************************)
EXTENDS Integers, Sequences, FiniteSets, TLC

VARIABLES
    \* ---- MotionAPI.fetch_task_data
    pages,          \* the server's chain of task pages (upstream state)
    cursor,         \* local `cursor`
    all_tasks,      \* local `all_tasks`
    requests,       \* the cursor parameter of every request sent, in order
    fetch_pc,       \* "idle" | "loop" | "done"
    fetch_failed,   \* an exception was caught by the method's handlers
    fetch_result,   \* the returned list
    \* ---- MotionAPI.get_task_data_n_days_ahead
    fetched,        \* what self.fetch_task_data() returned (local `all_tasks`)
    now,            \* the wall clock, an instant in ticks
    call_time,      \* the clock when the method was called
    timezone,       \* argument `timezone`: its UTC offset in ticks
    n_days,         \* argument `n_days`
    max_date,       \* local `max_date`
    task_idx,       \* position of `for task in all_tasks`
    relevant_tasks, \* local `relevant_tasks`
    kept,           \* per processed task: was it appended
    window_pc,      \* "idle" | "start" | "loop" | "done"
    window_raised,  \* an exception left the method
    \* ---- FitnessAPI.get_clean_data
    fit_today,      \* what date.today() returns now (a day number)
    fit_i,          \* loop variable `i`
    data_dict,      \* local `data_dict`: ISO date -> cleaned entry
    fit_log,        \* per fetch issued: its date, whether it raised, the summary
    fit_changes,    \* how often the date has changed during the call
    fit_pc,         \* "idle" | "loop" | "done"
    fit_raised,     \* an exception left get_clean_data
    \* ---- WeatherAPI.get_clean_weather_data
    api_response,   \* the payload the weather service holds
    weather_failed, \* the request raised a RequestException
    weather_result, \* what get_clean_weather_data gave its caller
    weather_pc,     \* "idle" | "call" | "done"
    \* ---- CalendarAPI.get_clean_event_data_n_days_ahead
    cal_items,      \* the events the calendar service holds (upstream state)
    cal_host,       \* the UTC offset of the host's local time, in ticks
    cal_tz,         \* self.timezone: the configured timezone's UTC offset
    cal_clock,      \* the wall clock, an instant in ticks
    cal_n,          \* argument `n_days`
    cal_fetch_failed, \* the request raised a RequestException
    cal_request,    \* the timeMax and timeZone parameters of the request sent
    cal_result,     \* what the call gave its caller
    cal_pc,         \* "idle" | "call" | "done" | "raised"
    \* ---- CombinedDataAPI.get_combined_data
    combined_in,    \* what each upstream source answered during the call
    combined_data,  \* local `combined_data`
    combined_pc,    \* "idle" | "weather" | "fitness" | "schedule" | "done" | "raised"
    combined_prev,  \* <<>>, or <<what an earlier call was answered and returned>>
    \* ---- SectionParser.parse_sections
    response_text,  \* argument `response`
    section_ids,    \* argument `section_ids`
    parse_result,   \* what the call gave: raised, value (the sections), log
    parser_pc,      \* "idle" | "call" | "done"
    \* ---- MotionAPI.get_clean_task_data_n_days_ahead
    planner_fetched,    \* the list fetch_task_data returned
    planner_result,     \* what the method returned or that it raised
    planner_pc,         \* "idle" | "call" | "done"
    \* ---- PersonalPlanner.generate_daily_briefing
    context,        \* argument `context`
    locals,         \* the method's local variables, each unbound (<<>>) or <<value>>
    llm_calls,      \* the prompt of every llm_api.query call, in order
    llm_failed,     \* TRUE once an llm_api.query call has raised
    outbox,         \* the messages the mail service accepted, in order
    mail_log,       \* the levels send_email logged at, in order
    html_calls,     \* the sections_dict of every construct_html call, in order
    brief_trace,    \* the statements executed so far, in order
    brief_pc        \* "idle", the statement to execute next, "done" or "raised"

fetchVars == <<pages, cursor, all_tasks, requests, fetch_pc, fetch_failed, fetch_result>>

windowVars == <<fetched, now, call_time, timezone, n_days, max_date, task_idx,
                relevant_tasks, kept, window_pc, window_raised>>

fitVars == <<fit_today, fit_i, data_dict, fit_log, fit_changes, fit_pc, fit_raised>>

weatherVars == <<api_response, weather_failed, weather_result, weather_pc>>

calVars == <<cal_items, cal_host, cal_tz, cal_clock, cal_n, cal_fetch_failed, cal_request,
             cal_result, cal_pc>>

combinedVars == <<combined_in, combined_data, combined_pc, combined_prev>>

parserVars == <<response_text, section_ids, parse_result, parser_pc>>

plannerVars == <<planner_fetched, planner_result, planner_pc>>

mailVars == <<outbox, mail_log>>

briefVars ==
    <<context, locals, llm_calls, llm_failed, mailVars, html_calls, brief_trace, brief_pc>>

vars == <<fetchVars, windowVars, fitVars, weatherVars, calVars, combinedVars, parserVars,
          plannerVars, briefVars>>

\* what the actions of one component leave alone
notFetch ==
    <<windowVars, fitVars, weatherVars, calVars, combinedVars, parserVars, plannerVars,
      briefVars>>
notWindow ==
    <<fetchVars, fitVars, weatherVars, calVars, combinedVars, parserVars, plannerVars,
      briefVars>>
notFit ==
    <<fetchVars, windowVars, weatherVars, calVars, combinedVars, parserVars, plannerVars,
      briefVars>>
notWeather ==
    <<fetchVars, windowVars, fitVars, calVars, combinedVars, parserVars, plannerVars,
      briefVars>>
notCal ==
    <<fetchVars, windowVars, fitVars, weatherVars, combinedVars, parserVars, plannerVars,
      briefVars>>
notCombined ==
    <<fetchVars, windowVars, fitVars, weatherVars, calVars, parserVars, plannerVars,
      briefVars>>
notParser ==
    <<fetchVars, windowVars, fitVars, weatherVars, calVars, combinedVars, plannerVars,
      briefVars>>
notBrief ==
    <<fetchVars, windowVars, fitVars, weatherVars, calVars, combinedVars, parserVars,
      plannerVars>>
notPlanner ==
    <<fetchVars, windowVars, fitVars, weatherVars, calVars, combinedVars, parserVars,
      briefVars>>

----------------------------------------------------------------------------
(* Bounds of the model *)

MaxPages == 2       \* longest cursor chain the server holds
MaxRequests == 4    \* requests of one fetch_task_data call that are followed
MaxPageLen == 1     \* most tasks on one page
MaxTaskId == 2      \* distinct task payloads
SubTicks == 2       \* clock ticks in one second (the sub-second resolution)
MaxN == 1           \* largest n_days
MaxFetched == 3     \* longest fetched task list get_clean_task_data_n_days_ahead sorts
MaxTasks == 1       \* longest fetched task list the window filter is given
MaxElapsed == 1     \* ticks that may pass while the filter runs
MaxDateChanges == 1 \* midnights that may pass while the fitness week is fetched
MaxDaily == 1       \* longest 'daily' forecast list of a weather payload
MaxAlerts == 1      \* longest 'alerts' list of a weather payload
MaxEvents == 2      \* longest list of calendar events
MaxElems == 2       \* most elements in a response document
MaxIds == 2         \* longest list of requested section ids

----------------------------------------------------------------------------
(* Python helpers *)

None == "None"

EmptyDict == [k \in {} |-> None]

\* dict.get(key, default)
Get(d, k, default) == IF k \in DOMAIN d THEN d[k] ELSE default

\* truth value of a str-or-None (`if cursor:`, `if scheduled_start:`)
Truthy(v) == v # None /\ v # ""

\* all sequences over S of length at most n
SeqUpTo(S, n) == UNION {[1..m -> S] : m \in 0..n}

\* d[k] = v, the key added when d lacks it
Put(d, k, v) == [x \in (DOMAIN d) \cup {k} |-> IF x = k THEN v ELSE d[x]]

\* An optional number (a number or None) is a sequence of length at most 1.
NoneNum == <<>>
Some(v) == <<v>>

\* What a call gives its caller: a value, or an exception.
Ok(v) == [raised |-> FALSE, value |-> v]
Raise == [raised |-> TRUE, value |-> <<>>]

RECURSIVE Concat(_)
\* the concatenation of a sequence of sequences
Concat(ss) == IF ss = <<>> THEN <<>> ELSE Head(ss) \o Concat(Tail(ss))

----------------------------------------------------------------------------
(* MotionAPI.fetch_task_data: the upstream server *)

TaskIds == 1..MaxTaskId

\* The non-empty cursor string the server hands out with page i.
CursorNames == <<"c1", "c2", "c3", "c4", "c5">>

\* meta of a page that carries no continuation cursor: the key "meta" absent,
\* meta = {}, meta = {"nextCursor": null}, meta = {"nextCursor": ""}.
EndMetaShapes == {"nometa", "empty", "null", "emptystr"}

\* meta of the last page of a chain: one of the above, or once more a
\* non-empty cursor (a server that never stops handing out cursors)
LastMetaShapes == EndMetaShapes \cup {"cursor"}

\* A page response as the decoded JSON object; hasTasks = FALSE gives a page
\* without the key "tasks".
PageResponse(hasTasks, tasks, metaShape, cur) ==
    LET body == IF hasTasks THEN [k \in {"tasks"} |-> tasks] ELSE EmptyDict
        meta == CASE metaShape = "empty"    -> EmptyDict
                  [] metaShape = "null"     -> [k \in {"nextCursor"} |-> None]
                  [] metaShape = "emptystr" -> [k \in {"nextCursor"} |-> ""]
                  [] OTHER                  -> [k \in {"nextCursor"} |-> cur]
    IN  IF metaShape = "nometa" THEN body
        ELSE [k \in (DOMAIN body) \cup {"meta"} |->
                 IF k = "meta" THEN meta ELSE body[k]]

\* The task lists a page may carry.
PageTaskLists == SeqUpTo(TaskIds, MaxPageLen)

\* Every chain of k pages: pages 1..k-1 carry the cursors c1..c(k-1), page k
\* none, or the cursor ck with which the server starts over.
Chains ==
    UNION {
        {[i \in 1..k |->
            IF i < k THEN PageResponse(has[i], ts[i], "cursor", CursorNames[i])
                     ELSE PageResponse(has[i], ts[i], last, CursorNames[i])] :
            ts \in [1..k -> PageTaskLists], has \in [1..k -> BOOLEAN],
            last \in LastMetaShapes}
        : k \in 1..MaxPages}

\* The tasks a page contributes: response.get("tasks", [])
PageTasks(response) == Get(response, "tasks", <<>>)

\* response.get("meta", {}).get("nextCursor")
NextCursor(response) == Get(Get(response, "meta", EmptyDict), "nextCursor", None)

\* GET /v1/tasks[?cursor=c]: the first page without a cursor, else the page
\* that follows the page which handed out c (the first page again after the
\* last).
Serve(chain, c) ==
    IF ~Truthy(c) THEN chain[1]
    ELSE LET i == CHOOSE j \in 1..Len(chain) : NextCursor(chain[j]) = c
         IN  chain[(i % Len(chain)) + 1]

----------------------------------------------------------------------------
(* MotionAPI.fetch_task_data: the method *)

InitFetch ==
    /\ pages \in Chains
    /\ cursor = None
    /\ all_tasks = <<>>
    /\ requests = <<>>
    /\ fetch_pc = "loop"
    /\ fetch_failed = FALSE
    /\ fetch_result = <<>>

IdleFetch ==
    /\ pages = <<>>
    /\ cursor = None
    /\ all_tasks = <<>>
    /\ requests = <<>>
    /\ fetch_pc = "idle"
    /\ fetch_failed = FALSE
    /\ fetch_result = <<>>

\* A bug variant of the loop body: the page's cursor is never followed.
FetchPageNoFollow ==
    /\ fetch_pc = "loop"
    /\ LET response == Serve(pages, cursor)
       IN  /\ requests' = Append(requests, cursor)
           /\ all_tasks' = all_tasks \o PageTasks(response)
           /\ cursor' = None
           /\ fetch_pc' = "done"
           /\ fetch_result' = all_tasks'
    /\ UNCHANGED <<pages, fetch_failed, notFetch>>

\* The loop body with `if cursor is None: break` at lines 58-59.
FetchPageBreakOnNone ==
    /\ fetch_pc = "loop"
    /\ Len(requests) < MaxRequests
    /\ LET response == Serve(pages, cursor)
       IN  /\ requests' = Append(requests, cursor)
           /\ all_tasks' = all_tasks \o PageTasks(response)
           /\ cursor' = NextCursor(response)
           /\ IF cursor' # None
                THEN fetch_pc' = "loop" /\ UNCHANGED fetch_result
                ELSE fetch_pc' = "done" /\ fetch_result' = all_tasks'
    /\ UNCHANGED <<pages, fetch_failed, notFetch>>

\* One iteration of `while True`: request, decode, extend, read the cursor,
\* and return all_tasks when there is none.
FetchPage ==
    /\ fetch_pc = "loop"
    /\ Len(requests) < MaxRequests
    /\ LET response == Serve(pages, cursor)
       IN  /\ requests' = Append(requests, cursor)
           /\ all_tasks' = all_tasks \o PageTasks(response)
           /\ cursor' = NextCursor(response)
           /\ IF Truthy(cursor')
                THEN fetch_pc' = "loop" /\ UNCHANGED fetch_result
                ELSE fetch_pc' = "done" /\ fetch_result' = all_tasks'
    /\ UNCHANGED <<pages, fetch_failed, notFetch>>

\* The handlers of lines 63-66 returning what was fetched before the failure.
FetchPageFailsPartial ==
    /\ fetch_pc = "loop"
    /\ Len(requests) < MaxRequests
    /\ requests' = Append(requests, cursor)
    /\ fetch_failed' = TRUE
    /\ fetch_pc' = "done"
    /\ fetch_result' = all_tasks
    /\ UNCHANGED <<pages, cursor, all_tasks, notFetch>>

\* The request or json.loads raises inside the loop: the handlers log the
\* error and the method returns [].
FetchPageFails ==
    /\ fetch_pc = "loop"
    /\ Len(requests) < MaxRequests
    /\ requests' = Append(requests, cursor)
    /\ fetch_failed' = TRUE
    /\ fetch_pc' = "done"
    /\ fetch_result' = <<>>
    /\ UNCHANGED <<pages, cursor, all_tasks, notFetch>>

NextFetch == FetchPage \/ FetchPageFails

\* C1: when no request fails, fetch_task_data returns the concatenation of
\* the tasks of all pages of the chain, in page order.
C1_FetchIsConcatenation ==
    (fetch_pc = "done" /\ ~fetch_failed) =>
        fetch_result = Concat([i \in 1..Len(pages) |-> PageTasks(pages[i])])

\* a two-page chain (page 1 with a cursor, page 2 without) fetched in full
C1_Witness ==
    /\ fetch_pc = "done" /\ ~fetch_failed
    /\ Len(pages) = 2 /\ Len(requests) = 2
    /\ Len(PageTasks(pages[1])) = 1 /\ Len(PageTasks(pages[2])) = 1
    /\ fetch_result = <<pages[1]["tasks"][1], pages[2]["tasks"][1]>>

\* C26: when the request or the decoding of any page fails, fetch_task_data
\* returns the empty list, never the tasks of the pages fetched before, and
\* it returns (no exception leaves the method).
C26_AllOrNothing ==
    fetch_failed => /\ fetch_pc = "done"
                    /\ fetch_result = <<>>

\* the second page failed after the first had contributed a task
C26_Witness ==
    /\ fetch_failed
    /\ Len(requests) = 2
    /\ all_tasks # <<>>
    /\ fetch_result = <<>>

\* the page that answers the i-th request of a call
ServedPage(i) == pages[((i - 1) % Len(pages)) + 1]

\* the server's chain ends: its last page carries no non-empty cursor
ChainEnds == ~Truthy(NextCursor(pages[Len(pages)]))

\* C27: the first request carries no cursor and request i+1 exactly the
\* nextCursor of page i; against a chain that ends after k pages no request
\* follows the page whose nextCursor is missing, null or empty, the method
\* has returned without a failure only after exactly k requests, and it
\* does return; against a server that never stops handing out a cursor the
\* loop is left only by a failure.
C27_FollowsCursorsToTheEnd ==
    /\ [](/\ \A i \in 1..Len(requests) :
                requests[i] = IF i = 1 THEN None ELSE NextCursor(ServedPage(i - 1))
          /\ \A i \in 2..Len(requests) : Truthy(requests[i])
          /\ ChainEnds => /\ Len(requests) <= Len(pages)
                          /\ (fetch_pc = "done" /\ ~fetch_failed)
                                <=> (Len(requests) = Len(pages) /\ ~fetch_failed)
          /\ ~ChainEnds => /\ fetch_pc = "done" => fetch_failed
                           /\ (fetch_pc = "loop" /\ requests # <<>>) => Truthy(cursor))
    /\ (fetch_pc = "loop" /\ ChainEnds) ~> (fetch_pc = "done")

\* a two-page chain ending in an empty-string cursor was fetched to its end
C27_Witness ==
    /\ fetch_pc = "done" /\ ~fetch_failed
    /\ Len(pages) = 2 /\ Len(requests) = 2
    /\ NextCursor(pages[2]) = ""

\* the loop is still running after more requests than the server has pages
C27_WitnessEndless ==
    /\ fetch_pc = "loop"
    /\ ~ChainEnds
    /\ Len(requests) > Len(pages)

----------------------------------------------------------------------------
(* Time.  An instant is a number of ticks since the epoch (UTC); a day has  *)
(* DayTicks ticks, a second SubTicks ticks.  A timezone is its UTC offset,  *)
(* a whole number of seconds.  An aware datetime is [utc, off]: the instant *)
(* and the offset it is displayed in; its wall time is utc + off.  Aware    *)
(* datetimes are ordered by their instants.                                 *)

DayTicks == 2 * SubTicks

TzOffsets == {0 - SubTicks, 0, SubTicks}

Aware(instant, off) == [utc |-> instant, off |-> off]

Wall(dt) == dt.utc + dt.off

\* the calendar date (a day number) of an aware datetime
DateOf(dt) == Wall(dt) \div DayTicks

\* datetime.now(tz)
Now(clock, tz) == Aware(clock, tz)

\* dt + timedelta(days=n): wall-clock arithmetic, same tzinfo
PlusDays(dt, n) == Aware(dt.utc + n * DayTicks, dt.off)

\* dt.replace(hour=0, minute=0, second=0, microsecond=0)
ReplaceHMSU(dt) == Aware(DateOf(dt) * DayTicks - dt.off, dt.off)

\* dt.replace(hour=0, minute=0, second=0): the microsecond field is kept
ReplaceHMS(dt) == Aware(DateOf(dt) * DayTicks + (Wall(dt) % SubTicks) - dt.off, dt.off)

\* a <= b on aware datetimes
Leq(a, b) == a.utc <= b.utc

----------------------------------------------------------------------------
(* MotionAPI.get_task_data_n_days_ahead *)

\* The value of task.get("scheduledStart"): None (key absent or null), the
\* empty string, or an ISO-8601 string giving a wall time and a UTC offset
\* (off = 0 is the suffix "Z").
NoStart == [kind |-> "none", wall |-> 0, off |-> 0]
EmptyStart == [kind |-> "empty", wall |-> 0, off |-> 0]
IsoStart(wall, off) == [kind |-> "iso", wall |-> wall, off |-> off]

\* Wall times the upstream tasks carry: from the day before the earliest
\* call to the day after the latest window end.
StartWalls == 0 .. ((MaxN + 3) * DayTicks - 1)

StartValues == {NoStart, EmptyStart} \cup {IsoStart(w, 0) : w \in StartWalls}

Tasks == [name : {"A"}, scheduledStart : StartValues]

\* `if scheduled_start:`
HasStart(task) == task.scheduledStart.kind = "iso"

\* _parse_date: fromisoformat(s.replace('Z', '+00:00')).astimezone(timezone)
ParseDate(date_str, tz) == Aware(date_str.wall - date_str.off, tz)

\* max_date as lines 110-111 compute it from the clock
MaxDate(clock, tz, n) == ReplaceHMS(PlusDays(Now(clock, tz), n))

\* `today` as line 116 computes it from the clock
Today(clock, tz) == ReplaceHMS(Now(clock, tz))

\* the test of line 118
InWindow(task, clock, tz, maxd) ==
    LET today == Today(clock, tz)
        task_date == ParseDate(task.scheduledStart, tz)
    IN  Leq(today, task_date) /\ Leq(task_date, maxd)

InitWindow ==
    /\ fetched \in SeqUpTo(Tasks, MaxTasks)
    /\ now \in DayTicks .. (2 * DayTicks - 1)
    /\ call_time = now
    /\ timezone \in TzOffsets
    /\ n_days \in 0..MaxN
    /\ max_date = Aware(0, 0)
    /\ task_idx = 0
    /\ relevant_tasks = <<>>
    /\ kept = <<>>
    /\ window_pc = "start"
    /\ window_raised = FALSE

IdleWindow ==
    /\ fetched = <<>>
    /\ now = 0
    /\ call_time = 0
    /\ timezone = 0
    /\ n_days = 0
    /\ max_date = Aware(0, 0)
    /\ task_idx = 0
    /\ relevant_tasks = <<>>
    /\ kept = <<>>
    /\ window_pc = "idle"
    /\ window_raised = FALSE

\* Time passes while the method runs.
Tick ==
    /\ window_pc \in {"start", "loop"}
    /\ now - call_time < MaxElapsed
    /\ now' = now + 1
    /\ UNCHANGED <<fetched, call_time, timezone, n_days, max_date, task_idx,
                   relevant_tasks, kept, window_pc, window_raised, notWindow>>

\* lines 108-111: the list is fetched and max_date computed
ComputeMaxDate ==
    /\ window_pc = "start"
    /\ max_date' = MaxDate(now, timezone, n_days)
    /\ task_idx' = 1
    /\ window_pc' = "loop"
    /\ UNCHANGED <<fetched, now, call_time, timezone, n_days, relevant_tasks,
                   kept, window_raised, notWindow>>

\* lines 113-119: one iteration of the loop over all_tasks
FilterTask ==
    /\ window_pc = "loop"
    /\ task_idx <= Len(fetched)
    /\ LET task == fetched[task_idx]
           keep == HasStart(task) /\ InWindow(task, now, timezone, max_date)
       IN  /\ relevant_tasks' = IF keep THEN Append(relevant_tasks, task)
                                        ELSE relevant_tasks
           /\ kept' = Append(kept, keep)
    /\ task_idx' = task_idx + 1
    /\ UNCHANGED <<fetched, now, call_time, timezone, n_days, max_date, window_pc,
                   window_raised, notWindow>>

\* line 121: return relevant_tasks
FilterReturn ==
    /\ window_pc = "loop"
    /\ task_idx > Len(fetched)
    /\ window_pc' = "done"
    /\ UNCHANGED <<fetched, now, call_time, timezone, n_days, max_date, task_idx,
                   relevant_tasks, kept, window_raised, notWindow>>

NextWindow == Tick \/ ComputeMaxDate \/ FilterTask \/ FilterReturn

\* C2: a fetched task is in the result iff it has a scheduledStart whose
\* date in the target timezone lies in [today, today + n_days], today being
\* the date of the call in the target timezone.
C2_DateWindow ==
    window_pc = "done" =>
        \A i \in 1..Len(fetched) :
            kept[i] <=>
                /\ HasStart(fetched[i])
                /\ LET d == DateOf(ParseDate(fetched[i].scheduledStart, timezone))
                       today == DateOf(Now(call_time, timezone))
                   IN  today <= d /\ d <= today + n_days

\* C3: a fetched task is in the result iff its scheduledStart instant t
\* satisfies today 00:00 <= t <= (today + n_days) 00:00 in the target
\* timezone, both bounds inclusive and exact.
C3_MidnightWindow ==
    window_pc = "done" =>
        \A i \in 1..Len(fetched) :
            kept[i] <=>
                /\ HasStart(fetched[i])
                /\ LET t == ParseDate(fetched[i].scheduledStart, timezone)
                       midnight == ReplaceHMSU(Now(call_time, timezone))
                   IN  Leq(midnight, t) /\ Leq(t, PlusDays(midnight, n_days))

----------------------------------------------------------------------------
(* FitnessAPI *)

NumDays == 7

\* Daily summaries the Garmin client may return: a full record, and one with
\* a zero distance, a null step count and no sleep or sedentary reading.
SummaryFull ==
    [totalSteps |-> Some(8000), totalDistanceMeters |-> Some(5000),
     sleepingSeconds |-> Some(27000), sedentarySeconds |-> Some(3630)]
SummaryPartial ==
    [totalSteps |-> NoneNum, totalDistanceMeters |-> Some(0)]
Summaries == {SummaryFull, SummaryPartial}

\* round(v / d, 2), in hundredths (ties to even)
RoundDiv(v, d) ==
    LET q == (100 * v) \div d
        r == (100 * v) % d
    IN  IF 2 * r < d THEN q
        ELSE IF 2 * r > d THEN q + 1
        ELSE IF q % 2 = 0 THEN q ELSE q + 1

\* The derived metric computed whenever the input is a number, zero included.
DerivedZeroKept(response, key, d) ==
    LET v == Get(response, key, NoneNum)
    IN  IF v # NoneNum THEN Some(RoundDiv(v[1], d)) ELSE NoneNum

\* round(response.get(key) / d, 2) if response.get(key) else None
Derived(response, key, d) ==
    LET v == Get(response, key, NoneNum)
    IN  IF v # NoneNum /\ v[1] # 0 THEN Some(RoundDiv(v[1], d)) ELSE NoneNum

\* A bug variant: the failure of the client call is not caught.
FetchUserDataByDateUncaught(failed, summary) ==
    IF failed THEN Raise ELSE Ok(summary)

\* fetch_user_data_by_date: the client's summary, {} when the client raises
FetchUserDataByDate(failed, summary) ==
    IF failed THEN Ok(EmptyDict) ELSE Ok(summary)

\* The dict built from the keys the response holds only: no key, no entry.
ExtractFitnessPresentOnly(response) ==
    [k \in {m \in {"total_steps"} : "totalSteps" \in DOMAIN response}
            \cup {m \in {"total_distance_kilometers"} : "totalDistanceMeters" \in DOMAIN response}
            \cup {m \in {"sleep_duration_hours"} : "sleepingSeconds" \in DOMAIN response}
            \cup {m \in {"sedentary_minutes"} : "sedentarySeconds" \in DOMAIN response} |->
        CASE k = "total_steps" -> Get(response, "totalSteps", NoneNum)
          [] k = "total_distance_kilometers" -> Derived(response, "totalDistanceMeters", 1000)
          [] k = "sleep_duration_hours" -> Derived(response, "sleepingSeconds", 3600)
          [] OTHER -> Derived(response, "sedentarySeconds", 60)]

\* The dict get_clean_data_by_date builds from the response (the plain
\* response.get copies are represented by total_steps).
ExtractFitness(response) ==
    [total_steps |-> Get(response, "totalSteps", NoneNum),
     total_distance_kilometers |-> Derived(response, "totalDistanceMeters", 1000),
     sleep_duration_hours |-> Derived(response, "sleepingSeconds", 3600),
     sedentary_minutes |-> Derived(response, "sedentarySeconds", 60)]

\* get_clean_data_by_date
GetCleanDataByDate(failed, summary) ==
    LET response == FetchUserDataByDate(failed, summary)
    IN  IF response.raised THEN Raise ELSE Ok(ExtractFitness(response.value))

InitFit ==
    /\ fit_today = NumDays
    /\ fit_i = 0
    /\ data_dict = EmptyDict
    /\ fit_log = <<>>
    /\ fit_changes = 0
    /\ fit_pc = "loop"
    /\ fit_raised = FALSE

IdleFit ==
    /\ fit_today = 0
    /\ fit_i = 0
    /\ data_dict = EmptyDict
    /\ fit_log = <<>>
    /\ fit_changes = 0
    /\ fit_pc = "idle"
    /\ fit_raised = FALSE

\* Midnight passes while the loop runs.
DateChange ==
    /\ fit_pc = "loop"
    /\ fit_changes < MaxDateChanges
    /\ fit_today' = fit_today + 1
    /\ fit_changes' = fit_changes + 1
    /\ UNCHANGED <<fit_i, data_dict, fit_log, fit_pc, fit_raised, notFit>>

\* lines 113-115: one iteration of `for i in range(7)`
FitDay ==
    /\ fit_pc = "loop"
    /\ fit_i < NumDays
    /\ \E failed \in BOOLEAN, summary \in Summaries :
          LET data_date == fit_today - fit_i
              entry == GetCleanDataByDate(failed, summary)
          IN  \* a fetch that raises returns no summary
              /\ failed => summary = SummaryFull
              /\ fit_log' = Append(fit_log, [date |-> data_date, failed |-> failed,
                                             summary |-> summary])
              /\ IF entry.raised
                   THEN /\ fit_raised' = TRUE
                        /\ fit_pc' = "done"
                        /\ UNCHANGED <<data_dict, fit_i>>
                   ELSE /\ data_dict' = Put(data_dict, data_date, entry.value)
                        /\ fit_i' = fit_i + 1
                        /\ UNCHANGED <<fit_raised, fit_pc>>
    /\ UNCHANGED <<fit_today, fit_changes, notFit>>

\* line 116: return data_dict
FitReturn ==
    /\ fit_pc = "loop"
    /\ fit_i = NumDays
    /\ fit_pc' = "done"
    /\ UNCHANGED <<fit_today, fit_i, data_dict, fit_log, fit_changes, fit_raised, notFit>>

NextFit == DateChange \/ FitDay \/ FitReturn

\* the last fetch issued for the date of fetch j
LastFetchOf(j) ==
    CHOOSE k \in j..Len(fit_log) :
        /\ fit_log[k].date = fit_log[j].date
        /\ \A m \in (k + 1)..Len(fit_log) : fit_log[m].date # fit_log[j].date

\* C4: whatever days' fetches fail, get_clean_data does not raise, and the
\* entry of every day whose fetch succeeded is the entry the day's summary
\* gives when nothing fails.
C4_FailuresIsolatedPerDay ==
    /\ ~fit_raised
    /\ fit_pc = "done" =>
          /\ Len(fit_log) = NumDays
          /\ \A j \in 1..Len(fit_log) :
                LET e == fit_log[LastFetchOf(j)]
                IN  /\ e.date \in DOMAIN data_dict
                    /\ ~e.failed => data_dict[e.date] = ExtractFitness(e.summary)

\* a week in which some fetches failed and some succeeded
C4_Witness ==
    /\ fit_pc = "done"
    /\ \E j, k \in 1..Len(fit_log) :
          /\ fit_log[j].failed /\ ~fit_log[k].failed
          /\ fit_log[k].summary = SummaryFull
          /\ data_dict[fit_log[k].date].total_distance_kilometers = Some(500)
          /\ data_dict[fit_log[j].date].total_distance_kilometers = NoneNum

\* C20: get_clean_data issues exactly one fetch for each of the last 7
\* calendar days and returns a mapping with exactly 7 distinct keys (today,
\* today-1, ..., today-6, today being the date when the call began or when
\* it ended), also when the date changes between two fetches.
C20_SevenDistinctDays ==
    (fit_pc = "done" /\ ~fit_raised) =>
        /\ Len(fit_log) = NumDays
        /\ \A j, k \in 1..Len(fit_log) : j # k => fit_log[j].date # fit_log[k].date
        /\ Cardinality(DOMAIN data_dict) = NumDays
        /\ \E today \in {fit_today - fit_changes, fit_today} :
              DOMAIN data_dict = {today - i : i \in 0..(NumDays - 1)}

\* the keys of a cleaned entry
MetricKeys ==
    {"total_steps", "total_distance_kilometers", "sleep_duration_hours",
     "sedentary_minutes"}

\* the fetches that raised and were not followed by another fetch of their date
FailedDays == {j \in 1..Len(fit_log) : LastFetchOf(j) = j /\ fit_log[j].failed}

DerivedMetrics ==
    {<<"total_distance_kilometers", "totalDistanceMeters", 1000>>,
     <<"sleep_duration_hours", "sleepingSeconds", 3600>>,
     <<"sedentary_minutes", "sedentarySeconds", 60>>}

\* the fetches that answered and were not followed by another fetch of their date
AnsweredDays == {j \in 1..Len(fit_log) : LastFetchOf(j) = j /\ ~fit_log[j].failed}

\* C22: each derived metric is its input divided by 1000, 3600 or 60 and
\* rounded to 2 decimals when the input key is present, and None when the
\* input key is missing.
C22_DerivedWhenPresent ==
    fit_pc = "done" =>
        \A j \in AnsweredDays : \A dm \in DerivedMetrics :
            LET summary == fit_log[j].summary
                value == data_dict[fit_log[j].date][dm[1]]
            IN  IF dm[2] \in DOMAIN summary /\ summary[dm[2]] # NoneNum
                THEN value = Some(RoundDiv(summary[dm[2]][1], dm[3]))
                ELSE value = NoneNum

\* C29: a derived metric is None exactly when its input is missing, None or
\* 0 (a present input of value 0 gives None, not 0.0); any other input gives
\* the rounded quotient.
C29_ZeroInputGivesNone ==
    fit_pc = "done" =>
        \A j \in AnsweredDays : \A dm \in DerivedMetrics :
            LET summary == fit_log[j].summary
                value == data_dict[fit_log[j].date][dm[1]]
                input == Get(summary, dm[2], NoneNum)
            IN  /\ value = NoneNum <=> (input = NoneNum \/ input = Some(0))
                /\ value # NoneNum => value = Some(RoundDiv(input[1], dm[3]))

\* a day's summary recorded a distance of 0 and its entry holds None, while
\* another day's 5000 m gave 5.00 km
C29_Witness ==
    /\ fit_pc = "done"
    /\ \E j, k \in AnsweredDays :
          /\ fit_log[j].summary["totalDistanceMeters"] = Some(0)
          /\ data_dict[fit_log[j].date].total_distance_kilometers = NoneNum
          /\ fit_log[k].summary["totalDistanceMeters"] = Some(5000)
          /\ data_dict[fit_log[k].date].total_distance_kilometers = Some(500)

----------------------------------------------------------------------------
(* WeatherAPI *)

\* The 'current' section: complete, or lacking the key 'temp'.
CurrentSections == [complete : BOOLEAN]

\* One entry of 'daily': complete, or lacking the key 'temp'.
DailyEntries == [complete : BOOLEAN]

\* The value of 'daily': a list of entries, or something that is no list.
DailyValues ==
    {[is_list |-> FALSE, items |-> <<>>]}
        \cup {[is_list |-> TRUE, items |-> d] : d \in SeqUpTo(DailyEntries, MaxDaily)}

\* One alert, with or without its 'start' and 'end'.
Alerts == [has_times : BOOLEAN]

\* A payload: each of 'current', 'daily', 'alerts' present or not.  The
\* arguments are sequences of length at most 1, empty for an absent key.
Payload(c, d, a) ==
    [k \in (IF c = <<>> THEN {} ELSE {"current"})
            \cup (IF d = <<>> THEN {} ELSE {"daily"})
            \cup (IF a = <<>> THEN {} ELSE {"alerts"}) |->
        CASE k = "current" -> c[1]
          [] k = "daily"   -> d[1]
          [] OTHER         -> a[1]]

WeatherPayloads ==
    {Payload(c, d, a) :
        c \in {<<>>} \cup {<<x>> : x \in CurrentSections},
        d \in {<<>>} \cup {<<x>> : x \in DailyValues},
        a \in {<<>>} \cup {<<x>> : x \in SeqUpTo(Alerts, MaxAlerts)}}

\* format_current_weather: current_weather['temp'] raises KeyError when absent
FormatCurrentWeather(current_weather) ==
    IF current_weather.complete THEN Ok([temperature |-> "temp C"]) ELSE Raise

\* format_daily_forecast: daily_forecast['temp'] raises KeyError when absent
FormatDailyForecast(daily_forecast) ==
    IF daily_forecast.complete THEN Ok([max_temp |-> "max C"]) ELSE Raise

\* format_alerts: never raises on a list of alert dicts
FormatAlerts(alerts) ==
    [i \in 1..Len(alerts) |->
        [title |-> "event",
         start |-> IF alerts[i].has_times THEN "time" ELSE None]]

\* A bug variant: each section is formatted when present, so a payload
\* with only one of the two sections gives a partial mapping.
ExtractRelevantDataPartial(response) ==
    LET hasC == "current" \in DOMAIN response
        hasD == "daily" \in DOMAIN response /\ response["daily"].is_list
                    /\ response["daily"].items # <<>>
        cw == IF hasC THEN FormatCurrentWeather(response["current"]) ELSE Raise
        tf == IF hasD THEN FormatDailyForecast(response["daily"].items[1]) ELSE Raise
    IN  IF (hasC /\ cw.raised) \/ (hasD /\ tf.raised) THEN Raise
        ELSE Ok([k \in (IF hasC THEN {"current_weather"} ELSE {})
                        \cup (IF hasD THEN {"today_forecast"} ELSE {}) |->
                    IF k = "current_weather" THEN cw.value ELSE tf.value])

\* extract_relevant_data
ExtractRelevantData(response) ==
    IF \/ "current" \notin DOMAIN response
       \/ "daily" \notin DOMAIN response
       \/ ~response["daily"].is_list
    THEN Ok(EmptyDict)
    ELSE LET cw == FormatCurrentWeather(response["current"])
             daily == response["daily"].items
             \* api_response['daily'][0] raises IndexError on an empty list
             tf == IF daily = <<>> THEN Raise ELSE FormatDailyForecast(daily[1])
             formatted_data ==
                 [k \in {"current_weather", "today_forecast"} |->
                     IF k = "current_weather" THEN cw.value ELSE tf.value]
         IN  IF cw.raised \/ tf.raised THEN Raise
             ELSE IF "alerts" \in DOMAIN response
                  THEN Ok(Put(formatted_data, "alerts", FormatAlerts(response["alerts"])))
                  ELSE Ok(formatted_data)

\* get_weather_data followed by get_clean_weather_data: {} when the request
\* failed or the payload is the empty object
GetCleanWeatherData(failed, response) ==
    LET raw_data == IF failed THEN EmptyDict ELSE response
    IN  IF raw_data = EmptyDict THEN Ok(EmptyDict) ELSE ExtractRelevantData(raw_data)

InitWeather ==
    /\ api_response \in WeatherPayloads
    /\ weather_failed = FALSE
    /\ weather_result = Ok(EmptyDict)
    /\ weather_pc = "call"

IdleWeather ==
    /\ api_response = EmptyDict
    /\ weather_failed = FALSE
    /\ weather_result = Ok(EmptyDict)
    /\ weather_pc = "idle"

\* get_clean_weather_data(lat, lon, timezone_str) with the request answered
CallWeather ==
    /\ weather_pc = "call"
    /\ weather_result' = GetCleanWeatherData(FALSE, api_response)
    /\ weather_pc' = "done"
    /\ UNCHANGED <<api_response, weather_failed, notWeather>>

\* get_clean_weather_data(lat, lon, timezone_str) with the request failing
CallWeatherFails ==
    /\ weather_pc = "call"
    /\ weather_failed' = TRUE
    /\ weather_result' = GetCleanWeatherData(TRUE, api_response)
    /\ weather_pc' = "done"
    /\ UNCHANGED <<api_response, notWeather>>

NextWeather == CallWeather \/ CallWeatherFails

\* the payload lacks 'current', lacks 'daily', or its 'daily' is no list
Insufficient(response) ==
    \/ "current" \notin DOMAIN response
    \/ "daily" \notin DOMAIN response
    \/ ~response["daily"].is_list

\* C6: an insufficient payload gives the empty mapping, and no returned
\* mapping holds one of current_weather and today_forecast without the other.
C6_NoPartialWeather ==
    weather_pc = "done" =>
        /\ (~weather_failed /\ Insufficient(api_response)) =>
               weather_result = Ok(EmptyDict)
        /\ ~weather_result.raised =>
               ("current_weather" \in DOMAIN weather_result.value
                   <=> "today_forecast" \in DOMAIN weather_result.value)

\* a payload with 'current' only went through the extraction
C6_Witness ==
    /\ weather_pc = "done" /\ ~weather_failed
    /\ DOMAIN api_response = {"current"}
    /\ weather_result = Ok(EmptyDict)

\* the payload passes the check of extract_relevant_data but lacks an expected
\* key inside 'current' or inside the first daily entry, or its 'daily' list
\* is empty
Malformed(response) ==
    /\ ~Insufficient(response)
    /\ \/ ~response["current"].complete
       \/ response["daily"].items = <<>>
       \/ response["daily"].items # <<>> /\ ~response["daily"].items[1].complete

\* C14: a malformed upstream payload makes the adapter return its empty
\* result without raising.
C14_MalformedDegradesToEmpty ==
    (weather_pc = "done" /\ ~weather_failed /\ Malformed(api_response)) =>
        weather_result = Ok(EmptyDict)

----------------------------------------------------------------------------
(* Sorting by scheduled_start, MotionAPI.extract_task_details, CalendarAPI *)

\* The place of a UTC offset's text in string order: "+hh:mm" texts first
\* (ascending), then "-hh:mm" texts, then "Z".
OffRank(off) ==
    IF off > 0 THEN off
    ELSE IF off < 0 THEN 2 * DayTicks - off
    ELSE 4 * DayTicks

\* a < b on two scheduled_start strings (the empty string first)
StrLess(a, b) ==
    IF a.kind = "empty" \/ b.kind = "empty" THEN a.kind = "empty" /\ b.kind # "empty"
    ELSE \/ a.wall < b.wall
         \/ a.wall = b.wall /\ OffRank(a.off) < OffRank(b.off)

\* item x put after the last element of the sorted list that is not greater
Insert(sorted, x) ==
    LET after == {i \in 1..Len(sorted) :
                     ~StrLess(x.scheduled_start, sorted[i].scheduled_start)}
        n == IF after = {} THEN 0 ELSE CHOOSE i \in after : \A j \in after : j <= i
    IN  SubSeq(sorted, 1, n) \o <<x>> \o SubSeq(sorted, n + 1, Len(sorted))

RECURSIVE SortAll(_, _)
SortAll(sorted, rest) ==
    IF rest = <<>> THEN sorted ELSE SortAll(Insert(sorted, Head(rest)), Tail(rest))

\* sorted(items, key=scheduled_start): stable; comparing a None key with
\* anything raises TypeError, and every item of a list of two or more is
\* compared at least once
SortedByStart(items) ==
    IF Len(items) >= 2 /\ \E i \in 1..Len(items) : items[i].scheduled_start.kind = "none"
    THEN Raise
    ELSE Ok(SortAll(<<>>, items))

\* extract_task_details
ExtractTaskDetails(tasks_data) ==
    [i \in 1..Len(tasks_data) |->
        [name |-> tasks_data[i].name,
         scheduled_start |-> tasks_data[i].scheduledStart]]

\* get_task_data_n_days_ahead keeping also the tasks that have no
\* scheduledStart
GetTaskDataNDaysAheadKeepsUnscheduled(tasks, clock, tz, n) ==
    LET maxd == MaxDate(clock, tz, n)
        Keep(task) == task.scheduledStart.kind = "none"
                         \/ (HasStart(task) /\ InWindow(task, clock, tz, maxd))
    IN  SelectSeq(tasks, Keep)

\* get_task_data_n_days_ahead with the clock standing still
GetTaskDataNDaysAhead(tasks, clock, tz, n) ==
    LET maxd == MaxDate(clock, tz, n)
        Keep(task) == HasStart(task) /\ InWindow(task, clock, tz, maxd)
    IN  SelectSeq(tasks, Keep)

\* get_clean_task_data_n_days_ahead
GetCleanTaskDataNDaysAhead(tasks, clock, tz, n) ==
    SortedByStart(ExtractTaskDetails(GetTaskDataNDaysAhead(tasks, clock, tz, n)))

\* Calendar events as the calendar service lists them: with start.dateTime,
\* or (an all-day event) without.
CalendarEvents ==
    [summary : {"E"},
     start : {NoStart, IsoStart(DayTicks, 0), IsoStart(DayTicks + SubTicks, 0),
              IsoStart(DayTicks + 1, SubTicks)}]

\* extract_event_details
ExtractEventDetails(events_data) ==
    [i \in 1..Len(events_data) |->
        [name |-> events_data[i].summary,
         scheduled_start |-> events_data[i].start]]

\* get_clean_event_data_n_days_ahead with the request's failure not caught
\* in fetch_events_n_days_ahead
GetCleanEventDataUncaught(failed, events) ==
    IF failed THEN Raise ELSE SortedByStart(ExtractEventDetails(events))

\* get_clean_event_data_n_days_ahead: [] is fetched when the request fails
GetCleanEventData(failed, events) ==
    SortedByStart(ExtractEventDetails(IF failed THEN <<>> ELSE events))

\* get_schedule giving up both lists when one of them is empty
GetScheduleBlocking(tasks, clock, tz, n, cal_failed, events) ==
    LET t == GetCleanTaskDataNDaysAhead(tasks, clock, tz, n)
        e == GetCleanEventData(cal_failed, events)
    IN  IF t.raised \/ e.raised THEN Raise
        ELSE IF t.value = <<>> \/ e.value = <<>> THEN Ok([tasks |-> <<>>, events |-> <<>>])
        ELSE Ok([tasks |-> t.value, events |-> e.value])

\* ScheduleAPI.get_schedule
GetSchedule(tasks, clock, tz, n, cal_failed, events) ==
    LET t == GetCleanTaskDataNDaysAhead(tasks, clock, tz, n)
        e == GetCleanEventData(cal_failed, events)
    IN  IF t.raised \/ e.raised THEN Raise
        ELSE Ok([tasks |-> t.value, events |-> e.value])

----------------------------------------------------------------------------
(* CalendarAPI.fetch_events_n_days_ahead and get_clean_event_data_n_days_ahead *)

\* The clock readings of the calendar runs: the instants of one UTC day, so
\* that the date differs between the offsets of TzOffsets.
CalClocks == DayTicks .. (2 * DayTicks - 1)

\* lines 28-30 and 33: datetime.now() is the host's local wall time, with no
\* tzinfo; days_ahead days are added, the time of day (microsecond too) is
\* zeroed, and isoformat() with "Z" appended is sent as timeMax
TimeMax(clock, host, days_ahead) ==
    LET naive_now == clock + host
    IN  IsoStart((naive_now \div DayTicks + days_ahead) * DayTicks, 0)

\* the instant an ISO-8601 string denotes
InstantOf(date_str) == date_str.wall - date_str.off

NoRequest == [timeMax |-> NoStart, timeZone |-> 0]

InitCal ==
    /\ cal_items \in SeqUpTo(CalendarEvents, MaxEvents)
    /\ cal_host \in TzOffsets
    /\ cal_tz \in TzOffsets
    /\ cal_clock \in CalClocks
    /\ cal_n \in 0..MaxN
    /\ cal_fetch_failed = FALSE
    /\ cal_request = NoRequest
    /\ cal_result = Ok(<<>>)
    /\ cal_pc = "call"

IdleCal ==
    /\ cal_items = <<>>
    /\ cal_host = 0
    /\ cal_tz = 0
    /\ cal_clock = 0
    /\ cal_n = 0
    /\ cal_fetch_failed = FALSE
    /\ cal_request = NoRequest
    /\ cal_result = Ok(<<>>)
    /\ cal_pc = "idle"

\* get_clean_event_data_n_days_ahead(n_days), the request `failed` or answered
CallCalendar(failed) ==
    LET result == GetCleanEventData(failed, cal_items)
    IN  /\ cal_pc = "call"
        /\ cal_fetch_failed' = failed
        /\ cal_request' = [timeMax |-> TimeMax(cal_clock, cal_host, cal_n),
                           timeZone |-> cal_tz]
        /\ cal_result' = result
        /\ cal_pc' = IF result.raised THEN "raised" ELSE "done"

GetCleanEvents ==
    /\ CallCalendar(FALSE)
    /\ UNCHANGED <<cal_items, cal_host, cal_tz, cal_clock, cal_n, notCal>>

GetCleanEventsFails ==
    /\ CallCalendar(TRUE)
    /\ UNCHANGED <<cal_items, cal_host, cal_tz, cal_clock, cal_n, notCal>>

NextCal == GetCleanEvents \/ GetCleanEventsFails

\* the call has ended, its request having been answered
CalAnswered == cal_pc \in {"done", "raised"} /\ ~cal_fetch_failed

HasDateTime(item) == item.scheduled_start.kind = "iso"

\* C17: events without a start sort after all events with one: every event
\* is returned, those with a start first in ascending order, those without
\* last, and the call does not raise.
C17_AbsentStartsSortLast ==
    CalAnswered =>
        /\ ~cal_result.raised
        /\ Len(cal_result.value) = Len(cal_items)
        /\ \A i, j \in 1..Len(cal_result.value) :
              i < j =>
                  /\ HasDateTime(cal_result.value[j]) => HasDateTime(cal_result.value[i])
                  /\ HasDateTime(cal_result.value[j]) =>
                        ~StrLess(cal_result.value[j].scheduled_start,
                                 cal_result.value[i].scheduled_start)

\* how often x occurs in seq
Count(seq, x) == Cardinality({i \in 1..Len(seq) : seq[i] = x})

\* C18: events that all carry a start time are returned, all of them, in
\* ascending order of their start instants, whatever UTC offsets the start
\* timestamps carry.
C18_SortedByInstant ==
    (CalAnswered /\ \A i \in 1..Len(cal_items) : cal_items[i].start.kind = "iso") =>
        /\ ~cal_result.raised
        /\ \A x \in CalendarEvents :
              Count(cal_result.value, ExtractEventDetails(<<x>>)[1]) = Count(cal_items, x)
        /\ \A i, j \in 1..Len(cal_result.value) :
              i < j => InstantOf(cal_result.value[i].scheduled_start)
                           <= InstantOf(cal_result.value[j].scheduled_start)

\* C19: the calendar adapter's timeMax and the planner adapter's max_date
\* both denote 00:00 of (today + n), today being the current date in the
\* target timezone, whatever the host's timezone is.
C19_BoundsInTargetTimezone ==
    cal_pc \in {"done", "raised"} =>
        LET midnight == (DateOf(Now(cal_clock, cal_tz)) + cal_n) * DayTicks - cal_tz
        IN  /\ InstantOf(cal_request.timeMax) = midnight
            /\ MaxDate(cal_clock, cal_tz, cal_n).utc = midnight

----------------------------------------------------------------------------
(* CombinedDataAPI.get_combined_data *)

DefaultNDaysAhead == 1

\* FitnessAPI.get_clean_data as a whole, the date not changing meanwhile:
\* every day's summary is SummaryFull, the fetches of failedDays raise.
GetCleanData(today, failedDays) ==
    LET dates == {today - i : i \in 0..(NumDays - 1)}
        entry == [d \in dates |-> GetCleanDataByDate(d \in failedDays, SummaryFull)]
    IN  IF \E d \in dates : entry[d].raised THEN Raise
        ELSE Ok([d \in dates |-> entry[d].value])

\* The answers of the sources in the aggregator's runs.
CombinedPayloads == {r \in WeatherPayloads : "alerts" \notin DOMAIN r}
CombinedTasks == [name : {"A"}, scheduledStart : {NoStart, IsoStart(DayTicks + SubTicks, 0)}]
CombinedFailedDays == {{}, {NumDays}, 1..NumDays}

NoInputs ==
    [weather_failed |-> FALSE, payload |-> EmptyDict, failed_days |-> {},
     motion_failed |-> FALSE, fetched |-> <<>>, cal_failed |-> FALSE, events |-> <<>>]

\* the upstream data do not change between two calls of one run: a source
\* answers a later call as it answered the earlier one
SameUpstream(field, answer) ==
    IF combined_prev = <<>> THEN TRUE ELSE combined_prev[1].answers[field] = answer

InitCombined ==
    /\ combined_in = NoInputs
    /\ combined_data = EmptyDict
    /\ combined_pc = "weather"
    /\ combined_prev = <<>>

IdleCombined ==
    /\ combined_in = NoInputs
    /\ combined_data = EmptyDict
    /\ combined_pc = "idle"
    /\ combined_prev = <<>>

\* lines 69-70 storing the weather category only when the adapter gave data
CombinedWeatherSkipEmpty ==
    /\ combined_pc = "weather"
    /\ \E failed \in BOOLEAN, response \in CombinedPayloads :
          LET weather_data == GetCleanWeatherData(failed, response)
          IN  /\ failed => response = EmptyDict
              /\ SameUpstream("weather_failed", failed)
              /\ SameUpstream("payload", response)
              /\ combined_in' = [combined_in EXCEPT !.weather_failed = failed,
                                                    !.payload = response]
              /\ IF weather_data.raised
                   THEN combined_pc' = "raised" /\ UNCHANGED combined_data
                   ELSE /\ combined_data' =
                              IF weather_data.value = EmptyDict THEN combined_data
                              ELSE Put(combined_data, "weather", weather_data.value)
                        /\ combined_pc' = "fitness"
    /\ UNCHANGED <<combined_prev, notCombined>>

\* lines 69-70
CombinedWeather ==
    /\ combined_pc = "weather"
    /\ \E failed \in BOOLEAN, response \in CombinedPayloads :
          LET weather_data == GetCleanWeatherData(failed, response)
          IN  /\ failed => response = EmptyDict
              /\ SameUpstream("weather_failed", failed)
              /\ SameUpstream("payload", response)
              /\ combined_in' = [combined_in EXCEPT !.weather_failed = failed,
                                                    !.payload = response]
              /\ IF weather_data.raised
                   THEN combined_pc' = "raised" /\ UNCHANGED combined_data
                   ELSE /\ combined_data' = Put(combined_data, "weather", weather_data.value)
                        /\ combined_pc' = "fitness"
    /\ UNCHANGED <<combined_prev, notCombined>>

\* lines 73-74
CombinedFitness ==
    /\ combined_pc = "fitness"
    /\ \E failedDays \in CombinedFailedDays :
          LET fitness_data == GetCleanData(NumDays, failedDays)
          IN  /\ SameUpstream("failed_days", failedDays)
              /\ combined_in' = [combined_in EXCEPT !.failed_days = failedDays]
              /\ IF fitness_data.raised
                   THEN combined_pc' = "raised" /\ UNCHANGED combined_data
                   ELSE /\ combined_data' = Put(combined_data, "fitness", fitness_data.value)
                        /\ combined_pc' = "schedule"
    /\ UNCHANGED <<combined_prev, notCombined>>

\* lines 77-78
CombinedSchedule ==
    /\ combined_pc = "schedule"
    /\ \E mfailed \in BOOLEAN, tasks \in SeqUpTo(CombinedTasks, MaxTasks),
          cfailed \in BOOLEAN, events \in SeqUpTo(CalendarEvents, MaxEvents) :
          LET schedule_data == GetSchedule(tasks, DayTicks + 1, 0, DefaultNDaysAhead,
                                           cfailed, events)
          IN  /\ mfailed => tasks = <<>>
              /\ cfailed => events = <<>>
              /\ SameUpstream("motion_failed", mfailed) /\ SameUpstream("fetched", tasks)
              /\ SameUpstream("cal_failed", cfailed) /\ SameUpstream("events", events)
              /\ combined_in' = [combined_in EXCEPT !.motion_failed = mfailed,
                                                    !.fetched = tasks,
                                                    !.cal_failed = cfailed,
                                                    !.events = events]
              /\ IF schedule_data.raised
                   THEN combined_pc' = "raised" /\ UNCHANGED combined_data
                   ELSE /\ combined_data' = Put(combined_data, "schedule", schedule_data.value)
                        /\ combined_pc' = "done"
    /\ UNCHANGED <<combined_prev, notCombined>>

\* The second call writing into the dict the first call returned.
CombinedRepeatSameDict ==
    /\ combined_pc = "done"
    /\ combined_prev = <<>>
    /\ combined_prev' = <<[answers |-> combined_in, snapshot |-> combined_data]>>
    /\ combined_in' = NoInputs
    /\ combined_pc' = "weather"
    /\ UNCHANGED <<combined_data, notCombined>>

\* line 66 again: get_combined_data is called a second time with the same
\* arguments; `combined_data = {}` is a new dict
CombinedRepeat ==
    /\ combined_pc = "done"
    /\ combined_prev = <<>>
    /\ combined_prev' = <<[answers |-> combined_in, snapshot |-> combined_data]>>
    /\ combined_in' = NoInputs
    /\ combined_data' = EmptyDict
    /\ combined_pc' = "weather"
    /\ UNCHANGED notCombined

NextCombined == CombinedWeather \/ CombinedFitness \/ CombinedSchedule \/ CombinedRepeat

\* C5: get_combined_data never raises; in the snapshot it returns, a failed
\* source's category is empty and every other category is what its source
\* gives on its own.
C5_CombinedNeverRaises ==
    /\ combined_pc # "raised"
    /\ combined_pc = "done" =>
          /\ combined_in.weather_failed => combined_data["weather"] = EmptyDict
          /\ combined_in.motion_failed => combined_data["schedule"].tasks = <<>>
          /\ combined_in.cal_failed => combined_data["schedule"].events = <<>>
          /\ ~combined_in.weather_failed =>
                Ok(combined_data["weather"]) = ExtractRelevantData(combined_in.payload)
          /\ Ok(combined_data["fitness"]) = GetCleanData(NumDays, combined_in.failed_days)
          /\ ~combined_in.cal_failed =>
                Len(combined_data["schedule"].events) = Len(combined_in.events)

\* the stage get_combined_data was in when an exception left it
RaisedIn(stage) ==
    /\ combined_pc = "raised"
    /\ stage = (IF "weather" \notin DOMAIN combined_data THEN "weather"
                ELSE IF "fitness" \notin DOMAIN combined_data THEN "fitness"
                ELSE "schedule")

\* C13: a failed upstream request is caught inside its adapter, which
\* returns its empty result ([] for calendar and planner, {} for the weather
\* and the fitness fetch); whatever leaves get_combined_data as an exception
\* comes from an adapter whose request did not fail.
C13_NetworkFailuresCaught ==
    /\ combined_in.weather_failed =>
          /\ ~RaisedIn("weather")
          /\ GetCleanWeatherData(TRUE, combined_in.payload) = Ok(EmptyDict)
          /\ "weather" \in DOMAIN combined_data => combined_data["weather"] = EmptyDict
    /\ ~RaisedIn("fitness")
    /\ "fitness" \in DOMAIN combined_data =>
          \A d \in combined_in.failed_days :
              /\ FetchUserDataByDate(TRUE, SummaryFull) = Ok(EmptyDict)
              /\ combined_data["fitness"][d] = ExtractFitness(EmptyDict)
    /\ LET t == GetCleanTaskDataNDaysAhead(combined_in.fetched, DayTicks + 1, 0,
                                           DefaultNDaysAhead)
           e == GetCleanEventData(combined_in.cal_failed, combined_in.events)
       IN  /\ combined_in.motion_failed => t = Ok(<<>>)
           /\ combined_in.cal_failed => e = Ok(<<>>)
           /\ RaisedIn("schedule") =>
                 \/ t.raised /\ ~combined_in.motion_failed
                 \/ e.raised /\ ~combined_in.cal_failed
    /\ combined_pc = "done" =>
          /\ combined_in.motion_failed => combined_data["schedule"].tasks = <<>>
          /\ combined_in.cal_failed => combined_data["schedule"].events = <<>>

\* the run has returned a snapshot although the requests of all four
\* sources failed
C13_Witness ==
    /\ combined_pc = "done"
    /\ combined_in.weather_failed
    /\ combined_in.failed_days = 1..NumDays
    /\ combined_in.motion_failed
    /\ combined_in.cal_failed

\* C16: get_schedule returns {'tasks': T, 'events': E}, T being exactly the
\* planner adapter's list and E exactly the calendar adapter's list, each in
\* its adapter's order; an adapter's list that is empty because its fetch
\* failed does not keep the other list from being returned in full.
C16_ScheduleIsStructural ==
    combined_pc = "done" =>
        LET t == GetCleanTaskDataNDaysAhead(combined_in.fetched, DayTicks + 1, 0,
                                            DefaultNDaysAhead)
            e == GetCleanEventData(combined_in.cal_failed, combined_in.events)
            schedule == combined_data["schedule"]
        IN  /\ DOMAIN schedule = {"tasks", "events"}
            /\ schedule.tasks = t.value
            /\ schedule.events = e.value
            /\ combined_in.motion_failed => schedule.events = e.value /\ schedule.tasks = <<>>
            /\ combined_in.cal_failed => schedule.tasks = t.value /\ schedule.events = <<>>

\* the planner fetch failed and two calendar events were returned in full
C16_Witness ==
    /\ combined_pc = "done"
    /\ combined_in.motion_failed
    /\ Len(combined_in.events) = 2
    /\ Len(combined_data["schedule"].events) = 2
    /\ combined_data["schedule"].tasks = <<>>

\* the keys combined_data holds when the call is at statement pc
KeysAt(pc) ==
    CASE pc = "weather" -> {}
      [] pc = "fitness" -> {"weather"}
      [] pc = "schedule" -> {"weather", "fitness"}
      [] OTHER -> {"weather", "fitness", "schedule"}

C24_SnapshotKeys ==
    combined_pc = "done" =>
        /\ DOMAIN combined_data = {"weather", "fitness", "schedule"}
        /\ DOMAIN combined_data["schedule"] = {"tasks", "events"}

\* a snapshot was returned although every source gave its empty result
C24_Witness ==
    /\ combined_pc = "done"
    /\ combined_data["weather"] = EmptyDict
    /\ combined_in.failed_days = 1..NumDays
    /\ combined_data["schedule"] = [tasks |-> <<>>, events |-> <<>>]

----------------------------------------------------------------------------
(* SectionParser.parse_sections *)

\* An element of the parsed document: its id attribute ("" when it has
\* none) and its content.  A document is the sequence of its elements in
\* document order.
Element(id, text) == [id |-> id, text |-> text]

\* What parse_sections is handed: markup that parses to a document, or a
\* value BeautifulSoup raises on (the content None of an LLM message).
Markup(doc) == [parseable |-> TRUE, doc |-> doc]
Unparseable == [parseable |-> FALSE, doc |-> <<>>]

\* A section that was not found (None); a found element e is <<e>>.
Absent == <<>>

\* soup.find(id=section_id): the first element with that id, or None
Find(doc, section_id) ==
    LET hits == {i \in 1..Len(doc) : doc[i].id = section_id}
    IN  IF hits = {} THEN Absent
        ELSE <<doc[CHOOSE i \in hits : \A j \in hits : i <= j]>>

\* the set of the elements of a list
Range(seq) == {seq[i] : i \in 1..Len(seq)}

\* A bug variant: only the ids found in the document become keys.
ParseSectionsFoundOnly(resp, ids) ==
    IF resp.parseable
    THEN [raised |-> FALSE,
          value |-> [id \in {x \in Range(ids) : Find(resp.doc, x) # Absent} |->
                        Find(resp.doc, id)],
          log |-> <<>>]
    ELSE [raised |-> FALSE, value |-> [id \in Range(ids) |-> Absent],
          log |-> <<"error">>]

\* parse_sections: the dict comprehension over section_ids; when building
\* the soup raises, logger.error and every id mapped to None
ParseSections(resp, ids) ==
    IF resp.parseable
    THEN [raised |-> FALSE,
          value |-> [id \in Range(ids) |-> Find(resp.doc, id)],
          log |-> <<>>]
    ELSE [raised |-> FALSE, value |-> [id \in Range(ids) |-> Absent],
          log |-> <<"error">>]

ParserIds == {"daily_schedule", "suggestions"}

ParserElements == {Element(id, text) : id \in ParserIds \cup {""}, text \in {"a", "b"}}

NoParse == [raised |-> FALSE, value |-> EmptyDict, log |-> <<>>]

InitParser ==
    /\ response_text \in {Unparseable} \cup {Markup(d) : d \in SeqUpTo(ParserElements, MaxElems)}
    /\ section_ids \in SeqUpTo(ParserIds, MaxIds)
    /\ parse_result = NoParse
    /\ parser_pc = "call"

IdleParser ==
    /\ response_text = Unparseable
    /\ section_ids = <<>>
    /\ parse_result = NoParse
    /\ parser_pc = "idle"

\* SectionParser.parse_sections(response, section_ids)
CallParseSections ==
    /\ parser_pc = "call"
    /\ parse_result' = ParseSections(response_text, section_ids)
    /\ parser_pc' = "done"
    /\ UNCHANGED <<response_text, section_ids, notParser>>

NextParser == CallParseSections

\* C7: parse_sections does not raise; the keys of its result are exactly
\* the requested ids; an id some element carries maps to the first such
\* element, and any other id maps to None.
C7_SectionsPerId ==
    parser_pc = "done" =>
        /\ ~parse_result.raised
        /\ DOMAIN parse_result.value = Range(section_ids)
        /\ \A id \in Range(section_ids) :
              LET doc == response_text.doc
              IN  IF \E i \in 1..Len(doc) : doc[i].id = id
                  THEN \E i \in 1..Len(doc) :
                         /\ doc[i].id = id
                         /\ \A j \in 1..(i - 1) : doc[j].id # id
                         /\ parse_result.value[id] = <<doc[i]>>
                  ELSE parse_result.value[id] = Absent

\* a document with daily_schedule and without suggestions, both requested
C7_Witness ==
    /\ parser_pc = "done"
    /\ section_ids = <<"daily_schedule", "suggestions">>
    /\ response_text = Markup(<<Element("daily_schedule", "a")>>)
    /\ parse_result.value["daily_schedule"] = <<Element("daily_schedule", "a")>>
    /\ parse_result.value["suggestions"] = Absent

\* C8: when the document cannot be parsed, parse_sections does not raise,
\* maps every requested id to None, and logs the failure as a warning.
C8_ParseFailureWarns ==
    (parser_pc = "done" /\ ~response_text.parseable) =>
        /\ ~parse_result.raised
        /\ parse_result.value = [id \in Range(section_ids) |-> Absent]
        /\ parse_result.log = <<"warning">>

----------------------------------------------------------------------------
(* PromptManager and PersonalPlanner.generate_daily_briefing *)

\* create_weather_prompt: the template with its placeholder substituted
CreateWeatherPrompt(weather_data) ==
    [template |-> "weather", weather_data |-> weather_data]

\* create_fitness_prompt
CreateFitnessPrompt(fitness_data) ==
    [template |-> "fitness", fitness_data |-> fitness_data]

\* create_calendar_prompt leaving the caller's context out
CreateCalendarPromptNoContext(ctx, fitness_overview, weather_recommendations, todays_schedule) ==
    [template |-> "schedule", context |-> "", fitness_overview |-> fitness_overview,
     weather_recommendations |-> weather_recommendations,
     todays_schedule |-> todays_schedule]

\* create_calendar_prompt
CreateCalendarPrompt(ctx, fitness_overview, weather_recommendations, todays_schedule) ==
    [template |-> "schedule", context |-> ctx, fitness_overview |-> fitness_overview,
     weather_recommendations |-> weather_recommendations,
     todays_schedule |-> todays_schedule]

\* The statements of generate_daily_briefing in program order (lines 145,
\* 149, 150, 153, 154, 157, 159, 162, 165, 166, 170).
BriefOrderScheduleFirst ==
    <<"fetch", "weather_prompt", "fitness_prompt", "weather_query", "weather_sections",
      "schedule_prompt", "schedule_query", "schedule_sections",
      "fitness_query", "fitness_sections", "html">>

BriefOrderStageByStage ==
    <<"fetch", "weather_prompt", "weather_query", "weather_sections",
      "fitness_prompt", "fitness_query", "fitness_sections",
      "schedule_prompt", "schedule_query", "schedule_sections", "html">>

BriefOrder ==
    <<"fetch", "weather_prompt", "fitness_prompt", "weather_query", "fitness_query",
      "weather_sections", "fitness_sections", "schedule_prompt", "schedule_query",
      "schedule_sections", "html">>

\* the statement that follows statement st, "done" after the last
StepAfter(st) ==
    LET i == CHOOSE k \in 1..Len(BriefOrder) : BriefOrder[k] = st
    IN  IF i = Len(BriefOrder) THEN "done" ELSE BriefOrder[i + 1]

LocalNames ==
    {"combined_data", "weather_prompt", "fitness_prompt", "weather_response",
     "fitness_response", "weather_sections", "fitness_sections", "schedule_prompt",
     "schedule_response", "schedule_sections", "html_content"}

\* reading local variables: an unbound one raises (UnboundLocalError)
Bound(names) == \A n \in names : locals[n] # <<>>
Val(n) == locals[n][1]

\* The snapshots get_combined_data may return here.
BriefSnapshots ==
    {[weather |-> w, fitness |-> GetCleanData(NumDays, {}).value,
      schedule |-> [tasks |-> <<>>, events |-> <<>>]] :
        w \in {EmptyDict, [current_weather |-> "cw", today_forecast |-> "tf"]}}

\* What the language model may answer: a document with all five sections,
\* one with two of them, or a message whose content is None.
SectionOrder ==
    <<"weather_overview", "weather_recommendations", "fitness_overview",
      "daily_schedule", "suggestions">>
DocFull == [i \in 1..Len(SectionOrder) |-> Element(SectionOrder[i], "a")]
DocPartial == <<Element("weather_overview", "b"), Element("daily_schedule", "b")>>
LLMResponses == {Markup(DocFull), Markup(DocPartial), Unparseable}

Contexts == {"ctx", "other ctx"}

InitBrief ==
    /\ context \in Contexts
    /\ locals = [n \in LocalNames |-> <<>>]
    /\ llm_calls = <<>>
    /\ llm_failed = FALSE
    /\ outbox = <<>>
    /\ mail_log = <<>>
    /\ html_calls = <<>>
    /\ brief_trace = <<>>
    /\ brief_pc = BriefOrder[1]

IdleBrief ==
    /\ context = ""
    /\ locals = [n \in LocalNames |-> <<>>]
    /\ llm_calls = <<>>
    /\ llm_failed = FALSE
    /\ outbox = <<>>
    /\ mail_log = <<>>
    /\ html_calls = <<>>
    /\ brief_trace = <<>>
    /\ brief_pc = "idle"

\* statement st is executed: it reads the locals `reads`, binds `target` to
\* `value`; reading an unbound local raises
Execute(st, reads, target, value) ==
    /\ brief_pc = st
    /\ brief_trace' = Append(brief_trace, st)
    /\ IF Bound(reads)
         THEN /\ locals' = [locals EXCEPT ![target] = <<value>>]
              /\ brief_pc' = StepAfter(st)
         ELSE /\ brief_pc' = "raised"
              /\ UNCHANGED locals

\* lines 145-146: combined_data = self.data_api.get_combined_data(...)
FetchCombinedData ==
    /\ \E snapshot \in BriefSnapshots :
          Execute("fetch", {}, "combined_data", snapshot)
    /\ UNCHANGED <<context, llm_calls, llm_failed, mailVars, html_calls, notBrief>>

\* get_combined_data raises (it has no handler of its own)
FetchCombinedDataRaises ==
    /\ brief_pc = "fetch"
    /\ brief_trace' = Append(brief_trace, "fetch")
    /\ brief_pc' = "raised"
    /\ UNCHANGED <<context, locals, llm_calls, llm_failed, mailVars, html_calls, notBrief>>

\* line 149
ComposeWeatherPrompt ==
    /\ Execute("weather_prompt", {"combined_data"}, "weather_prompt",
               CreateWeatherPrompt(Val("combined_data").weather))
    /\ UNCHANGED <<context, llm_calls, llm_failed, mailVars, html_calls, notBrief>>

\* line 150
ComposeFitnessPrompt ==
    /\ Execute("fitness_prompt", {"combined_data"}, "fitness_prompt",
               CreateFitnessPrompt(Val("combined_data").fitness))
    /\ UNCHANGED <<context, llm_calls, llm_failed, mailVars, html_calls, notBrief>>

\* self.llm_api.query(prompt) answering: lines 153, 154, 165
Query(st, prompt, target) ==
    /\ \E answer \in LLMResponses : Execute(st, {prompt}, target, answer)
    /\ llm_calls' = IF Bound({prompt}) THEN Append(llm_calls, Val(prompt)) ELSE llm_calls
    /\ UNCHANGED llm_failed

\* self.llm_api.query(prompt) raising and being issued again
QueryRaisesRetry(st, prompt) ==
    /\ brief_pc = st
    /\ brief_trace' = Append(brief_trace, st)
    /\ llm_calls' = IF Bound({prompt}) THEN Append(llm_calls, Val(prompt)) ELSE llm_calls
    /\ llm_failed' = (llm_failed \/ Bound({prompt}))
    /\ brief_pc' = st
    /\ UNCHANGED locals

\* self.llm_api.query(prompt) raising: the exception leaves the method
QueryRaises(st, prompt) ==
    /\ brief_pc = st
    /\ brief_trace' = Append(brief_trace, st)
    /\ llm_calls' = IF Bound({prompt}) THEN Append(llm_calls, Val(prompt)) ELSE llm_calls
    /\ llm_failed' = (llm_failed \/ Bound({prompt}))
    /\ brief_pc' = "raised"
    /\ UNCHANGED locals

QueryWeather ==
    /\ Query("weather_query", "weather_prompt", "weather_response")
    /\ UNCHANGED <<context, mailVars, html_calls, notBrief>>

QueryWeatherRaises ==
    /\ QueryRaises("weather_query", "weather_prompt")
    /\ UNCHANGED <<context, mailVars, html_calls, notBrief>>

QueryFitness ==
    /\ Query("fitness_query", "fitness_prompt", "fitness_response")
    /\ UNCHANGED <<context, mailVars, html_calls, notBrief>>

QueryFitnessRaises ==
    /\ QueryRaises("fitness_query", "fitness_prompt")
    /\ UNCHANGED <<context, mailVars, html_calls, notBrief>>

QuerySchedule ==
    /\ Query("schedule_query", "schedule_prompt", "schedule_response")
    /\ UNCHANGED <<context, mailVars, html_calls, notBrief>>

QueryScheduleRaises ==
    /\ QueryRaises("schedule_query", "schedule_prompt")
    /\ UNCHANGED <<context, mailVars, html_calls, notBrief>>

\* SectionParser.parse_sections(<response>.choices[0].message.content, ids):
\* lines 157, 159, 166
Section(st, resp, ids, target) ==
    Execute(st, {resp}, target, ParseSections(Val(resp), ids).value)

SectionWeather ==
    /\ Section("weather_sections", "weather_response",
               <<"weather_overview", "weather_recommendations">>, "weather_sections")
    /\ UNCHANGED <<context, llm_calls, llm_failed, mailVars, html_calls, notBrief>>

SectionFitness ==
    /\ Section("fitness_sections", "fitness_response", <<"fitness_overview">>,
               "fitness_sections")
    /\ UNCHANGED <<context, llm_calls, llm_failed, mailVars, html_calls, notBrief>>

SectionSchedule ==
    /\ Section("schedule_sections", "schedule_response",
               <<"daily_schedule", "suggestions">>, "schedule_sections")
    /\ UNCHANGED <<context, llm_calls, llm_failed, mailVars, html_calls, notBrief>>

\* lines 162-164 with the raw weather snapshot in the place of the weather
\* stage's sectioned recommendations
ComposeSchedulePromptRawWeather ==
    /\ Execute("schedule_prompt", {"fitness_sections", "weather_sections", "combined_data"},
               "schedule_prompt",
               CreateCalendarPrompt(context,
                                    Val("fitness_sections")["fitness_overview"],
                                    <<Val("combined_data").weather>>,
                                    Val("combined_data").schedule))
    /\ UNCHANGED <<context, llm_calls, llm_failed, mailVars, html_calls, notBrief>>

\* lines 162-164
ComposeSchedulePrompt ==
    /\ Execute("schedule_prompt", {"fitness_sections", "weather_sections", "combined_data"},
               "schedule_prompt",
               CreateCalendarPrompt(context,
                                    Val("fitness_sections")["fitness_overview"],
                                    Val("weather_sections")["weather_recommendations"],
                                    Val("combined_data").schedule))
    /\ UNCHANGED <<context, llm_calls, llm_failed, mailVars, html_calls, notBrief>>

\* The dict literal of lines 171-175, in insertion order.
SectionsDict(weather_sections, fitness_sections, schedule_sections) ==
    <<[title |-> "Weather Section", sections |-> weather_sections],
      [title |-> "Fitness Section", sections |-> fitness_sections],
      [title |-> "Schedule Section", sections |-> schedule_sections]>>

\* the inner loop of construct_html (lines 110-113): the subsections that
\* are not None, in the order of the section ids
Contents(sections) ==
    LET ids == SelectSeq(SectionOrder,
                         LAMBDA id : id \in DOMAIN sections /\ sections[id] # Absent)
    IN  [i \in 1..Len(ids) |-> sections[ids[i]][1]]

RECURSIVE Body(_)
\* the outer loop of construct_html (lines 102-113): per group its title as
\* a header, a line break and its contents
Body(groups) ==
    IF groups = <<>> THEN <<>>
    ELSE <<Element("h2", groups[1].title), Element("br", "")>>
            \o Contents(groups[1].sections) \o Body(Tail(groups))

\* HTMLConstructor.construct_html: greeting, the groups, the conclusion
ConstructHtmlDoc(sections_dict) ==
    <<Element("h1", "Morning Briefing for Nicholas"),
      Element("p", "Good morning, Nicholas! Here's an overview of your day:"),
      Element("br", "")>>
        \o Body(sections_dict)
        \o <<Element("br", ""),
              Element("p", "Wishing you a productive and balanced day, Nicholas!"),
              Element("br", ""), Element("p", "Best regards,"),
              Element("br", ""), Element("p", "Your AI Assistant")>>

\* lines 170-176 leaving out the groups none of whose sections was found
ConstructHtmlSkipEmptyGroups ==
    /\ IF Bound({"weather_sections", "fitness_sections", "schedule_sections"})
         THEN LET all == SectionsDict(Val("weather_sections"), Val("fitness_sections"),
                                      Val("schedule_sections"))
                  sections_dict ==
                      SelectSeq(all, LAMBDA g : Contents(g.sections) # <<>>)
              IN  /\ Execute("html", {}, "html_content", ConstructHtmlDoc(sections_dict))
                  /\ html_calls' = Append(html_calls, sections_dict)
         ELSE /\ Execute("html", {"weather_sections", "fitness_sections",
                                  "schedule_sections"}, "html_content", <<>>)
              /\ UNCHANGED html_calls
    /\ UNCHANGED <<context, llm_calls, llm_failed, mailVars, notBrief>>

\* lines 170-176: the three section groups handed to HTMLConstructor and
\* the document it returns bound to html_content
ConstructHtml ==
    /\ IF Bound({"weather_sections", "fitness_sections", "schedule_sections"})
         THEN LET sections_dict ==
                      SectionsDict(Val("weather_sections"), Val("fitness_sections"),
                                   Val("schedule_sections"))
              IN  /\ Execute("html", {}, "html_content", ConstructHtmlDoc(sections_dict))
                  /\ html_calls' = Append(html_calls, sections_dict)
         ELSE /\ Execute("html", {"weather_sections", "fitness_sections",
                                  "schedule_sections"}, "html_content", <<>>)
              /\ UNCHANGED html_calls
    /\ UNCHANGED <<context, llm_calls, llm_failed, mailVars, notBrief>>

\* the message send_email builds (sendgrid_api.py lines 43-48)
Mail(html_content) ==
    [from_email |-> "FROM_EMAIL", to_emails |-> "TO_EMAIL", subject |-> "SUBJECT",
     html_content |-> html_content]

\* main.py lines 227-229 once generate_daily_briefing has returned:
\* send_email, the mail service accepting the message
SendEmail ==
    /\ brief_pc = "done"
    /\ outbox' = Append(outbox, Mail(Val("html_content")))
    /\ mail_log' = mail_log \o <<"info", "info">>
    /\ brief_pc' = "exit"
    /\ UNCHANGED <<context, locals, llm_calls, llm_failed, html_calls, brief_trace, notBrief>>

\* send_email without its handler: the failure of the client or of the send
\* reaches the main program
SendEmailFailsPropagates ==
    /\ brief_pc = "done"
    /\ brief_pc' = "raised"
    /\ UNCHANGED <<context, locals, llm_calls, llm_failed, mailVars, html_calls, brief_trace,
                   notBrief>>

\* send_email, the client or the send raising: caught and logged
SendEmailFails ==
    /\ brief_pc = "done"
    /\ mail_log' = Append(mail_log, "error")
    /\ brief_pc' = "exit"
    /\ UNCHANGED <<context, locals, llm_calls, llm_failed, outbox, html_calls, brief_trace, notBrief>>

NextBrief ==
    \/ FetchCombinedData \/ FetchCombinedDataRaises
    \/ ComposeWeatherPrompt \/ ComposeFitnessPrompt
    \/ QueryWeather \/ QueryWeatherRaises
    \/ QueryFitness \/ QueryFitnessRaises
    \/ SectionWeather \/ SectionFitness
    \/ ComposeSchedulePrompt
    \/ QuerySchedule \/ QueryScheduleRaises
    \/ SectionSchedule
    \/ ConstructHtml
    \/ SendEmail \/ SendEmailFails

\* the statements executed before the i-th
Before(i) == {brief_trace[j] : j \in 1..(i - 1)}

\* C9: the schedule prompt is composed and the schedule query issued only
\* after the weather and the fitness response were both received and
\* sectioned.
C9_ScheduleAfterBothStages ==
    \A i \in 1..Len(brief_trace) :
        brief_trace[i] \in {"schedule_prompt", "schedule_query"} =>
            {"weather_query", "fitness_query", "weather_sections", "fitness_sections"}
                \subseteq Before(i)

\* the schedule query has been issued, after both sectionings
C9_Witness ==
    /\ Len(llm_calls) = 3
    /\ llm_calls[3].template = "schedule"
    /\ Bound({"weather_sections", "fitness_sections", "schedule_response"})

ScheduleCalls == {i \in 1..Len(llm_calls) : llm_calls[i].template = "schedule"}

\* C11: the schedule prompt is built from exactly four inputs: the caller's
\* context, the fitness response's sectioned fitness_overview, the weather
\* response's sectioned weather_recommendations and the snapshot's schedule
\* slice; no raw weather or fitness snapshot is substituted into it.
C11_SchedulePromptInputs ==
    \A i \in ScheduleCalls :
        /\ DOMAIN llm_calls[i] =
              {"template", "context", "fitness_overview", "weather_recommendations",
               "todays_schedule"}
        /\ llm_calls[i].context = context
        /\ llm_calls[i].fitness_overview =
              ParseSections(Val("fitness_response"), <<"fitness_overview">>)
                  .value["fitness_overview"]
        /\ llm_calls[i].weather_recommendations =
              ParseSections(Val("weather_response"),
                            <<"weather_overview", "weather_recommendations">>)
                  .value["weather_recommendations"]
        /\ llm_calls[i].todays_schedule = Val("combined_data").schedule

\* a schedule query was issued whose prompt carries both sectioned fragments,
\* the weather snapshot being non-empty
C11_Witness ==
    /\ ScheduleCalls # {}
    /\ \A i \in ScheduleCalls :
          /\ llm_calls[i].fitness_overview # Absent
          /\ llm_calls[i].weather_recommendations # Absent
    /\ Val("combined_data").weather # EmptyDict

QuerySteps == {"weather_query", "fitness_query", "schedule_query"}

\* C12: the LLM is queried at most once per stage (at most three calls, no
\* retry); once a call has failed the run has ended with the failure: the
\* failed call is the last statement executed, so no later stage's call is
\* made, no HTML is assembled and no email is sent.
C12_LLMFailureIsFatal ==
    /\ Len(llm_calls) <= 3
    /\ \A i, j \in 1..Len(llm_calls) :
          i # j => llm_calls[i].template # llm_calls[j].template
    /\ llm_failed =>
          /\ brief_pc = "raised"
          /\ brief_trace[Len(brief_trace)] \in QuerySteps
          /\ Len(llm_calls) =
                Cardinality({i \in 1..Len(brief_trace) : brief_trace[i] \in QuerySteps})
          /\ locals["html_content"] = <<>>
          /\ outbox = <<>>
          /\ mail_log = <<>>

\* the fitness call failed after the weather call had answered
C12_Witness ==
    /\ llm_failed
    /\ Len(llm_calls) = 2
    /\ locals["weather_response"] # <<>>

\* C15 as stated: the prompt of every stage (weather, fitness, schedule)
\* receives the caller's context, unmodified.
C15_ContextInEveryPrompt ==
    \A i \in 1..Len(llm_calls) :
        "context" \in DOMAIN llm_calls[i] /\ llm_calls[i].context = context

\* C15 amended: the caller's context reaches, unmodified, the schedule
\* stage's prompt and only that one; the weather and the fitness prompt are
\* built from their snapshot slice alone.
C15_ContextInSchedulePromptOnly ==
    \A i \in 1..Len(llm_calls) :
        /\ llm_calls[i].template = "schedule" =>
              "context" \in DOMAIN llm_calls[i] /\ llm_calls[i].context = context
        /\ llm_calls[i].template = "weather" =>
              /\ DOMAIN llm_calls[i] = {"template", "weather_data"}
              /\ llm_calls[i].weather_data = Val("combined_data").weather
        /\ llm_calls[i].template = "fitness" =>
              /\ DOMAIN llm_calls[i] = {"template", "fitness_data"}
              /\ llm_calls[i].fitness_data = Val("combined_data").fitness

\* all three prompts were sent in a run whose caller gave "other ctx"
C15_Witness ==
    /\ context = "other ctx"
    /\ Len(llm_calls) = 3
    /\ llm_calls[3].context = "other ctx"
    /\ brief_pc = "exit"

\* C25: a briefing run that returns has handed construct_html exactly one
\* mapping, of exactly three groups in the order weather, fitness, schedule,
\* whose section ids are exactly {weather_overview, weather_recommendations},
\* {fitness_overview} and {daily_schedule, suggestions}; no mapping is
\* handed over by a run that does not get that far.
C25_AssembledMapping ==
    /\ brief_pc \in {"done", "exit"} <=> Len(html_calls) = 1
    /\ Len(html_calls) <= 1
    /\ \A c \in 1..Len(html_calls) :
          /\ [i \in 1..Len(html_calls[c]) |-> html_calls[c][i].title] =
                <<"Weather Section", "Fitness Section", "Schedule Section">>
          /\ [i \in 1..Len(html_calls[c]) |-> DOMAIN html_calls[c][i].sections] =
                <<{"weather_overview", "weather_recommendations"},
                  {"fitness_overview"}, {"daily_schedule", "suggestions"}>>

\* the mapping was handed over with a group none of whose sections was found
C25_Witness ==
    /\ brief_pc = "done"
    /\ Len(html_calls) = 1
    /\ \E i \in 1..3 : Contents(html_calls[1][i].sections) = <<>>
    /\ \E i \in 1..3 : Contents(html_calls[1][i].sections) # <<>>

\* the send_email calls made so far: each one either has its message
\* accepted or logs one error
SendEmailCalls ==
    Len(outbox) + Cardinality({i \in 1..Len(mail_log) : mail_log[i] = "error"})

\* C30: send_email is called at most once and only after
\* generate_daily_briefing has returned the document assembled from all three
\* stages; a delivery failure is logged inside send_email and the run ends
\* normally, no exception reaching the main program.
C30_SendEmailOnceAfterBriefing ==
    /\ SendEmailCalls <= 1
    /\ brief_pc = "exit" <=> SendEmailCalls = 1
    /\ SendEmailCalls = 1 =>
          /\ brief_trace = BriefOrder
          /\ Len(html_calls) = 1 /\ Len(html_calls[1]) = 3
          /\ locals["html_content"] = <<ConstructHtmlDoc(html_calls[1])>>
          /\ \A i \in 1..Len(outbox) : outbox[i] = Mail(Val("html_content"))
          /\ mail_log \in {<<"info", "info">>, <<"error">>}
          /\ (outbox = <<>>) <=> (mail_log = <<"error">>)
    /\ brief_pc = "raised" => locals["html_content"] = <<>>

\* the delivery failed: one error logged, nothing delivered, the run ended
C30_Witness ==
    /\ brief_pc = "exit"
    /\ mail_log = <<"error">>
    /\ outbox = <<>>

----------------------------------------------------------------------------
(* MotionAPI.get_clean_task_data_n_days_ahead over fetched task lists *)

\* the clock, timezone and n_days of the call: midnight UTC, one day ahead
PlannerClock == DayTicks

\* The tasks fetch_task_data may have returned: without scheduledStart, with
\* an empty one, scheduled before the window, and scheduled inside it (two
\* of them at the same instant written with different UTC offsets).
PlannerTasks ==
    [name : {"A", "B"},
     scheduledStart : {NoStart, EmptyStart, IsoStart(0, 0),
                       IsoStart(DayTicks + 1, 0), IsoStart(DayTicks + SubTicks, 0),
                       IsoStart(DayTicks + SubTicks + 1, SubTicks)}]

InitPlanner ==
    /\ planner_fetched \in SeqUpTo(PlannerTasks, MaxFetched)
    /\ planner_result = Ok(<<>>)
    /\ planner_pc = "call"

IdlePlanner ==
    /\ planner_fetched = <<>>
    /\ planner_result = Ok(<<>>)
    /\ planner_pc = "idle"

\* lines 167-168
GetCleanTasks ==
    /\ planner_pc = "call"
    /\ planner_result' = GetCleanTaskDataNDaysAhead(planner_fetched, PlannerClock, 0,
                                                    DefaultNDaysAhead)
    /\ planner_pc' = "done"
    /\ UNCHANGED <<planner_fetched, notPlanner>>

NextPlanner == GetCleanTasks

\* C28: get_clean_task_data_n_days_ahead never raises in its sort; every
\* item it returns has a non-empty scheduled_start; the items are in
\* ascending order of their scheduled_start values, and items with equal
\* values are in the order in which they were fetched.
C28_SortedTasksHaveStart ==
    planner_pc = "done" =>
        /\ ~planner_result.raised
        /\ LET r == planner_result.value
           IN  /\ \A i \in 1..Len(r) : r[i].scheduled_start.kind = "iso"
               /\ \A i, j \in 1..Len(r) :
                     i < j => ~StrLess(r[j].scheduled_start, r[i].scheduled_start)
               /\ \E p \in [1..Len(r) -> 1..Len(planner_fetched)] :
                     /\ \A i \in 1..Len(r) :
                           /\ r[i].name = planner_fetched[p[i]].name
                           /\ r[i].scheduled_start = planner_fetched[p[i]].scheduledStart
                     /\ \A i, j \in 1..Len(r) :
                           /\ i # j => p[i] # p[j]
                           /\ (i < j /\ r[i].scheduled_start = r[j].scheduled_start)
                                 => p[i] < p[j]

\* three tasks were fetched, one of them without a scheduled start; the two
\* others came back in the opposite of their fetch order
C28_Witness ==
    /\ planner_pc = "done"
    /\ Len(planner_fetched) = 3
    /\ \E i \in 1..3 : planner_fetched[i].scheduledStart = NoStart
    /\ Len(planner_result.value) = 2
    /\ StrLess(planner_result.value[1].scheduled_start,
               planner_result.value[2].scheduled_start)
    /\ \E i, j \in 1..3 :
          /\ i < j
          /\ planner_fetched[i].scheduledStart = planner_result.value[2].scheduled_start
          /\ planner_fetched[j].scheduledStart = planner_result.value[1].scheduled_start

----------------------------------------------------------------------------
(* Specifications: one per component, the other components idle *)

\* every component but c in its idle state
IdleExcept(c) ==
    /\ c # "fetch" => IdleFetch
    /\ c # "window" => IdleWindow
    /\ c # "fit" => IdleFit
    /\ c # "weather" => IdleWeather
    /\ c # "cal" => IdleCal
    /\ c # "combined" => IdleCombined
    /\ c # "parser" => IdleParser
    /\ c # "brief" => IdleBrief
    /\ c # "planner" => IdlePlanner

InitFetchOnly == InitFetch /\ IdleExcept("fetch")

SpecFetch == InitFetchOnly /\ [][NextFetch]_vars
\* the loop of fetch_task_data runs on: a request either answers or raises
SpecFetchFair == SpecFetch /\ WF_vars(NextFetch)

InitWindowOnly == InitWindow /\ IdleExcept("window")

SpecWindow == InitWindowOnly /\ [][NextWindow]_vars

InitFitOnly == InitFit /\ IdleExcept("fit")

SpecFit == InitFitOnly /\ [][NextFit]_vars

InitWeatherOnly == InitWeather /\ IdleExcept("weather")

SpecWeather == InitWeatherOnly /\ [][NextWeather]_vars

InitCalOnly == InitCal /\ IdleExcept("cal")

SpecCal == InitCalOnly /\ [][NextCal]_vars

InitCombinedOnly == InitCombined /\ IdleExcept("combined")

SpecCombined == InitCombinedOnly /\ [][NextCombined]_vars

InitParserOnly == InitParser /\ IdleExcept("parser")

SpecParser == InitParserOnly /\ [][NextParser]_vars

InitPlannerOnly == InitPlanner /\ IdleExcept("planner")

SpecPlanner == InitPlannerOnly /\ [][NextPlanner]_vars

InitBriefOnly == InitBrief /\ IdleExcept("brief")

SpecBrief == InitBriefOnly /\ [][NextBrief]_vars

====
